---- MODULE Spec2Model ----
(***************************************************************************)
(* Model of chinese_memorial_calendar.py: the ChineseMemorialCalendar      *)
(* class (event builders, lunar/solar resolver, anniversary ingestion,     *)
(* file generation) together with the behaviour of the two libraries the   *)
(* class calls into: ics 0.7 (Event.begin / Event.end / make_all_day) and  *)
(* lunarcalendar (Lunar, Solar, Converter).                                *)
(*                                                                         *)
(* A datetime is [ord, sec]: ord is the day number counted from 1 January  *)
(* of EpochYear, sec the seconds since midnight.  An optional value is a   *)
(* sequence of length 0 (None / key absent) or 1.  A string the program    *)
(* edits character by character is a sequence of one-character strings.    *)
(* The Chinese parts of the program's strings are written by their code    *)
(* points ("U+6E05U+660EU+8282" for the three characters of Qingming).     *)
(***************************************************************************)
EXTENDS Integers, Sequences, FiniteSets, TLC

\* ------------------------------------------------------------------ bounds
MinYear == 2020
MaxYear == 2026
\* the builders' date arguments range over FirstDay .. FirstDay + DaySpan
DaySpan == 7
\* number of entries in the anniversaries list of the config file (Spec)
MaxEntries == 2
\* number of entries in the anniversaries list of the config file (SpecLoad)
MaxLoadEntries == 2
\* number of calls of load_anniversaries_config on one instance
MaxLoads == 2

Years == MinYear..MaxYear

\* ------------------------------------------- Gregorian calendar (datetime)
\* Day numbers count from 1 January of EpochYear.
EpochYear == MinYear - 1
\* the lunar years the table below holds
TableYears == 2019..2028

IsLeapYear(y) == (y % 4 = 0 /\ y % 100 # 0) \/ y % 400 = 0

DaysInMonth(y, m) ==
    IF m = 2 THEN (IF IsLeapYear(y) THEN 29 ELSE 28)
    ELSE IF m \in {4, 6, 9, 11} THEN 30 ELSE 31

DaysInYear(y) == IF IsLeapYear(y) THEN 366 ELSE 365

RECURSIVE DaysBeforeYear(_)
DaysBeforeYear(y) ==
    IF y <= EpochYear THEN 0 ELSE DaysBeforeYear(y - 1) + DaysInYear(y - 1)

RECURSIVE DaysBeforeMonth(_, _)
DaysBeforeMonth(y, m) ==
    IF m <= 1 THEN 0 ELSE DaysBeforeMonth(y, m - 1) + DaysInMonth(y, m - 1)

\* Solar (y, m, d) -> day number (Converter.SolarToInt, datetime(y, m, d))
SolarToInt(y, m, d) == DaysBeforeYear(y) + DaysBeforeMonth(y, m) + (d - 1)

\* the year that holds day number n
YearOfDay(n) ==
    CHOOSE yy \in EpochYear..(MaxYear + 2) :
        DaysBeforeYear(yy) <= n /\ n < DaysBeforeYear(yy + 1)

\* the month of year y that holds the day r of the year (0-based)
MonthOfDay(y, r) ==
    CHOOSE mm \in 1..12 :
        DaysBeforeMonth(y, mm) <= r /\ r < DaysBeforeMonth(y, mm) + DaysInMonth(y, mm)

SolarInMonth(y, m, r) == [year |-> y, month |-> m, day |-> r - DaysBeforeMonth(y, m) + 1]

SolarInYear(y, r) == SolarInMonth(y, MonthOfDay(y, r), r)

\* day number -> (y, m, d), by search
SolarOfDay(n) == SolarInYear(YearOfDay(n), n - DaysBeforeYear(YearOfDay(n)))

\* the same, tabulated once for the days of EpochYear .. MaxYear + 2
SolarOfDayTable == [n \in 0..(DaysBeforeYear(MaxYear + 3) - 1) |-> SolarOfDay(n)]

\* day number -> Solar (y, m, d) (Converter.SolarFromInt, datetime fields)
SolarFromInt(n) == SolarOfDayTable[n]

\* datetime(year, month, day, tzinfo=self.timezone): midnight of that day
DateTime(y, m, d) == [ord |-> SolarToInt(y, m, d), sec |-> 0]

\* datetime + timedelta(days=n)
PlusDays(dt, n) == [ord |-> dt.ord + n, sec |-> dt.sec]

\* datetime.replace(hour=0, minute=0, second=0, microsecond=0); Arrow.floor('day')
Midnight(dt) == [ord |-> dt.ord, sec |-> 0]

\* datetime comparison (same timezone on both sides)
Before(a, b) == a.ord < b.ord \/ (a.ord = b.ord /\ a.sec < b.sec)

\* datetime.year
YearOf(dt) == SolarFromInt(dt.ord).year

\* --------------------------------------------- lunarcalendar's lunar table
(* One row per lunar year: the solar date of lunar 1/1, the leap month (0:  *)
(* none) and the lengths of the year's months in calendar order, the leap  *)
(* month right after the month it repeats.                                  *)
LunarTable ==
    [y \in TableYears |->
        CASE y = 2019 -> [m |-> 2, d |-> 5,  leap |-> 0,
                          days |-> <<30, 29, 30, 29, 30, 29, 29, 30, 29, 29, 30, 30>>]
          [] y = 2020 -> [m |-> 1, d |-> 25, leap |-> 4,
                          days |-> <<29, 30, 30, 30, 29, 30, 29, 29, 30, 29, 30, 29, 30>>]
          [] y = 2021 -> [m |-> 2, d |-> 12, leap |-> 0,
                          days |-> <<29, 30, 30, 29, 30, 29, 30, 29, 30, 29, 30, 29>>]
          [] y = 2022 -> [m |-> 2, d |-> 1,  leap |-> 0,
                          days |-> <<30, 29, 30, 29, 30, 30, 29, 30, 29, 30, 29, 30>>]
          [] y = 2023 -> [m |-> 1, d |-> 22, leap |-> 2,
                          days |-> <<29, 30, 29, 29, 30, 30, 29, 30, 30, 29, 30, 29, 30>>]
          [] y = 2024 -> [m |-> 2, d |-> 10, leap |-> 0,
                          days |-> <<29, 30, 29, 29, 30, 29, 30, 30, 29, 30, 30, 29>>]
          [] y = 2025 -> [m |-> 1, d |-> 29, leap |-> 6,
                          days |-> <<30, 29, 30, 29, 29, 30, 29, 30, 29, 30, 30, 30, 29>>]
          [] y = 2026 -> [m |-> 2, d |-> 17, leap |-> 0,
                          days |-> <<30, 29, 30, 29, 29, 30, 29, 29, 30, 30, 30, 29>>]
          [] y = 2027 -> [m |-> 2, d |-> 6,  leap |-> 0,
                          days |-> <<30, 30, 29, 30, 29, 29, 30, 29, 29, 30, 30, 29>>]
          [] OTHER    -> [m |-> 1, d |-> 26, leap |-> 5,
                          days |-> <<30, 30, 30, 29, 30, 29, 29, 30, 29, 29, 30, 30, 29>>]]

\* day number of lunar 1/1 of lunar year y
LunarNewYear(y) == SolarToInt(y, LunarTable[y].m, LunarTable[y].d)

RECURSIVE SumDays(_, _)
SumDays(days, n) == IF n <= 0 THEN 0 ELSE SumDays(days, n - 1) + days[n]

\* number of table entries that precede (non-leap) lunar month `month`
MonthsBefore(y, month) ==
    LET leap == LunarTable[y].leap
    IN IF month <= leap \/ leap = 0 THEN month - 1 ELSE month

\* length of (non-leap) lunar month `month` of lunar year y
MonthLen(y, month) == LunarTable[y].days[MonthsBefore(y, month) + 1]

\* a Lunar2Solar that forgets the leap month when it counts the months before
Lunar2SolarIgnoreLeap(y, month, day) ==
    LunarNewYear(y) + SumDays(LunarTable[y].days, month - 1) + day - 1

\* Converter.Lunar2Solar for Lunar(y, month, day), isleap=False: the day number
Lunar2Solar(y, month, day) ==
    LunarNewYear(y) + SumDays(LunarTable[y].days, MonthsBefore(y, month)) + day - 1

\* The month loop of Converter.Solar2Lunar: walks the table entries from the
\* first, taking each entry's length off the offset while the offset exceeds it.
RECURSIVE WalkMonths(_, _, _)
WalkMonths(days, i, offset) ==
    IF i <= Len(days) /\ offset > days[i]
    THEN WalkMonths(days, i + 1, offset - days[i])
    ELSE [lunar_m |-> i, offset |-> offset]

\* the Lunar that Solar2Lunar builds from the table index (the lunar year) and
\* the month loop's result
LunarOf(index, leap, w) ==
    [year   |-> index,
     month  |-> IF leap # 0 /\ w.lunar_m > leap THEN w.lunar_m - 1 ELSE w.lunar_m,
     day    |-> w.offset,
     isleap |-> leap # 0 /\ w.lunar_m = leap + 1]

Solar2LunarAt(index, n) ==
    LunarOf(index, LunarTable[index].leap,
            WalkMonths(LunarTable[index].days, 1, n - LunarNewYear(index) + 1))

\* Converter.Solar2Lunar for the Solar (sy, m, d): the table index is the solar
\* year, or the year before when the date precedes that year's lunar 1/1
Solar2Lunar(sy, m, d) ==
    Solar2LunarAt(IF LunarNewYear(sy) > SolarToInt(sy, m, d) THEN sy - 1 ELSE sy,
                  SolarToInt(sy, m, d))

\* Lunar(y, month, day): the constructor's check that the date exists
\* (raises DateNotExist otherwise)
LunarExists(y, month, day) ==
    /\ y \in TableYears
    /\ month \in 1..12
    /\ day >= 1
    /\ day <= MonthLen(y, month)

\* ------------------------------------------------- results of a call
\* a call returns a value or raises an exception
Return(v) == [exc |-> "None", value |-> v]
Raise(exc) == [exc |-> exc, value |-> <<>>]

\* r, then K on its value: an exception r raised propagates
Try(r, K(_)) == IF r.exc # "None" THEN Raise(r.exc) ELSE K(r.value)

\* ------------------------------------------------------------ ics.Event
\* ics.Event(): no begin, no end, second precision
NewEvent ==
    [name |-> <<>>, begin |-> <<>>, end_time |-> <<>>, precision |-> "second",
     description |-> <<>>]

\* Event.all_day
AllDay(e) == e.precision = "day"

\* Event.end (the property): the stored end, else begin + 1 day for an all-day
\* event, else begin (an instant)
EventEnd(e) ==
    IF e.end_time # <<>> THEN e.end_time
    ELSE IF e.begin # <<>>
         THEN (IF AllDay(e) THEN <<PlusDays(e.begin[1], 1)>> ELSE e.begin)
         ELSE <<>>

\* Event.begin = value: ValueError when an end is stored and value is after it
SetBegin(e, value) ==
    IF e.end_time # <<>> /\ Before(e.end_time[1], value)
    THEN Raise("ValueError")
    ELSE Return([e EXCEPT !.begin = <<value>>, !.precision = "second"])

\* Event.end = value: ValueError when a begin is stored and value is before it
SetEnd(e, value) ==
    IF e.begin # <<>> /\ Before(value, e.begin[1])
    THEN Raise("ValueError")
    ELSE Return([e EXCEPT !.end_time = <<value>>])

\* a make_all_day that floors begin and drops the end but leaves the precision
MakeAllDayKeepsPrecision(e) ==
    IF AllDay(e) THEN e
    ELSE [e EXCEPT !.begin = <<Midnight(e.begin[1])>>, !.end_time = <<>>]

\* the all-day event from begin_day to end_day, the end day included
SpanDays(e, begin_day, end_day) ==
    [e EXCEPT !.begin     = <<begin_day>>,
              !.end_time  = IF begin_day = end_day THEN <<>> ELSE <<PlusDays(end_day, 1)>>,
              !.precision = "day"]

\* Event.make_all_day(): the event spans all the days from the begin day to
\* the end day, the end day included
MakeAllDay(e) ==
    IF AllDay(e) THEN e
    ELSE SpanDays(e, Midnight(e.begin[1]), Midnight(EventEnd(e)[1]))

\* ------------------------------------------------ ChineseMemorialCalendar
\* _create_multiday_event(name, start_date, end_date, description)
_create_multiday_event(name, start_date, end_date, description) ==
    Try(SetBegin([NewEvent EXCEPT !.name = name], Midnight(start_date)), LAMBDA e1 :
    Try(SetEnd(e1, Midnight(PlusDays(end_date, 1))), LAMBDA e2 :
    Return([MakeAllDay(e2) EXCEPT !.description = description])))

\* _create_event(name, date, description)
_create_event(name, date, description) ==
    Try(SetBegin([NewEvent EXCEPT !.name = name], Midnight(date)), LAMBDA e1 :
    Return([MakeAllDay(e1) EXCEPT !.description = description]))

\* Solar(solar_date.year, solar_date.month, solar_date.day), converted
SolarToLunar(s) == Solar2Lunar(s.year, s.month, s.day)

\* _solar_to_lunar(solar_date)
_solar_to_lunar(solar_date) == SolarToLunar(SolarFromInt(solar_date.ord))

\* datetime(solar_date.year, solar_date.month, solar_date.day, tzinfo=self.timezone)
SolarDateTime(solar_date) == DateTime(solar_date.year, solar_date.month, solar_date.day)

\* Lunar(y, month, day), then Converter.Lunar2Solar, then the datetime
ResolveLunar(y, lunar_month, lunar_day) ==
    IF ~LunarExists(y, lunar_month, lunar_day)
    THEN Raise("DateNotExist")
    ELSE Return(SolarDateTime(SolarFromInt(Lunar2Solar(y, lunar_month, lunar_day))))

\* _lunar_to_solar(lunar_month, lunar_day, year) on an instance whose year is
\* self_year; `year` is optional, and `year or self.year` also replaces a 0
_lunar_to_solar(self_year, lunar_month, lunar_day, year) ==
    ResolveLunar(IF year = <<>> \/ year[1] = 0 THEN self_year ELSE year[1],
                 lunar_month, lunar_day)

\* ------------------------------------------------------ names and files
\* str.lower() on one character of the names' alphabet
Lower(c) == IF c = "A" THEN "a" ELSE IF c = "B" THEN "b" ELSE c

\* str.lower()
RECURSIVE LowerStr(_)
LowerStr(s) == IF s = <<>> THEN <<>> ELSE <<Lower(Head(s))>> \o LowerStr(Tail(s))

\* str.replace(old, new) for a one-character old; new is <<>> or one character
RECURSIVE Replace(_, _, _)
Replace(s, old, new) ==
    IF s = <<>> THEN <<>>
    ELSE (IF Head(s) = old THEN new ELSE <<Head(s)>>) \o Replace(Tail(s), old, new)

\* f"anniversary_{name}.ics".lower().replace(' ', '_').replace('\'', '')
AnniversaryFilename(name) ==
    Replace(Replace(LowerStr(<<"anniversary_">> \o name \o <<".ics">>), " ", <<"_">>),
            "'", <<>>)

\* os.path.join(self.output_dir, filename.replace(',', ''))
FilePath(filename) == <<"calendar_events/">> \o Replace(filename, ",", <<>>)

\* the description of a fixed occasion (its text is a constant of the program)
FixedDesc(tag) == [text |-> <<tag>>, lunar_month |-> 0, lunar_day |-> 0, notes |-> <<>>]

\* ---------------------------------------------------------------- stdout
\* the parts of the program's and the inputs' strings that are not ASCII
NonAscii == {"U+6E05U+660EU+8282", "U+51ACU+81F3", "U+9B3CU+6708", "U+9664U+5915",
             "U+7956U+6BCD", "U+7956"}

\* sys.stdout.encoding: UTF-8, or one that has no Chinese characters
Encodings == {"utf-8", "ascii"}

\* whether print(text) succeeds on a stdout of that encoding; if not it raises
\* UnicodeEncodeError
CanEncode(encoding, text) ==
    encoding = "utf-8" \/ \A i \in 1..Len(text) : text[i] \notin NonAscii

\* ------------------------------------------------------ event generation
\* generate_solar_calendar_events(): Qingming (April 5) and Winter Solstice
\* (December 22) of self.year
generate_solar_calendar_events(self_year) ==
    Try(_create_event(<<"Qingming Festival ", "U+6E05U+660EU+8282">>, DateTime(self_year, 4, 5),
                      FixedDesc("qingming_desc")), LAMBDA qingming :
    Try(_create_event(<<"Winter Solstice ", "U+51ACU+81F3">>, DateTime(self_year, 12, 22),
                      FixedDesc("winter_solstice_desc")), LAMBDA winter_solstice :
    Return(<< [filename |-> <<"qingming.ics">>, event |-> qingming],
              [filename |-> <<"winter_solstice.ics">>, event |-> winter_solstice] >>)))

\* nye_date without the day taken off
NyeDateNoEve(self_year) == _lunar_to_solar(self_year, 1, 1, <<self_year>>)

\* nye_date = self._lunar_to_solar(1, 1, self.year) - timedelta(days=1)
NyeDate(self_year) ==
    Try(_lunar_to_solar(self_year, 1, 1, <<self_year>>), LAMBDA new_year :
    Return(PlusDays(new_year, -1)))

\* generate_lunar_calendar_events(): Ghost Month (lunar 7/1 to 7/30) and
\* Chinese New Year's Eve; the first call that raises ends it
generate_lunar_calendar_events(self_year) ==
    Try(_lunar_to_solar(self_year, 7, 1, <<>>), LAMBDA ghost_month_start :
    Try(_lunar_to_solar(self_year, 7, 30, <<>>), LAMBDA ghost_month_end :
    Try(_create_multiday_event(<<"Ghost Month ", "U+9B3CU+6708">>, ghost_month_start, ghost_month_end,
                               FixedDesc("ghost_festival_desc")), LAMBDA ghost :
    Try(NyeDate(self_year), LAMBDA nye_date :
    Try(_create_event(<<"Chinese New Year's Eve ", "U+9664U+5915">>, nye_date,
                      FixedDesc("nye_desc")), LAMBDA nye :
    Return(<< [filename |-> <<"ghost_month.ics">>, event |-> ghost],
              [filename |-> <<"chinese_new_year_eve.ics">>, event |-> nye] >>))))))

\* the event name of an anniversary: name, or "name (chinese_name)"
AnniversaryEventName(a) ==
    IF a.chinese_name # <<>>
    THEN a.name \o <<" (">> \o a.chinese_name \o <<")">>
    ELSE a.name

\* the description of an anniversary: name, lunar date, notes
AnniversaryDesc(a) ==
    [text |-> AnniversaryEventName(a), lunar_month |-> a.lunar_month,
     lunar_day |-> a.lunar_day, notes |-> a.notes]

\* one iteration of the loop of generate_anniversary_events
AnniversaryEvent(self_year, a) ==
    Try(_lunar_to_solar(self_year, a.lunar_month, a.lunar_day, <<>>), LAMBDA date :
    Try(_create_event(AnniversaryEventName(a), date, AnniversaryDesc(a)), LAMBDA event :
    Return(<<[filename |-> AnniversaryFilename(a.name), event |-> event]>>)))

\* generate_anniversary_events(): one event per stored anniversary, in order;
\* the first resolution that raises ends it
RECURSIVE generate_anniversary_events(_, _)
generate_anniversary_events(self_year, annivs) ==
    IF annivs = <<>> THEN Return(<<>>)
    ELSE Try(AnniversaryEvent(self_year, Head(annivs)), LAMBDA first :
         Try(generate_anniversary_events(self_year, Tail(annivs)), LAMBDA rest :
         Return(first \o rest)))

\* an event list that leaves out what does not resolve instead of raising
RECURSIVE ResolvableAnniversaryEvents(_, _)
ResolvableAnniversaryEvents(self_year, annivs) ==
    IF annivs = <<>> THEN <<>>
    ELSE AnniversaryEvent(self_year, Head(annivs)).value
         \o ResolvableAnniversaryEvents(self_year, Tail(annivs))

AllEventsSkipUnresolved(self_year, annivs) ==
    Return(generate_solar_calendar_events(self_year).value
           \o generate_lunar_calendar_events(self_year).value
           \o ResolvableAnniversaryEvents(self_year, annivs))

\* The list generate_calendars iterates over: solar + lunar + anniversary events,
\* built in full before the first file is written
AllEvents(self_year, annivs) ==
    Try(generate_solar_calendar_events(self_year), LAMBDA solar :
    Try(generate_lunar_calendar_events(self_year), LAMBDA lunar :
    Try(generate_anniversary_events(self_year, annivs), LAMBDA anniv :
    Return(solar \o lunar \o anniv))))

\* open(filepath, 'w') and write: the file at that path is replaced; a file
\* holds the event serialized into it
WriteFile(fs, item) ==
    {f \in fs : f.path # FilePath(item.filename)}
    \cup {[path |-> FilePath(item.filename), event |-> <<item.event>>]}

\* open(filepath, 'w') succeeded and the write or the close raised: the file is
\* created or cut, what it held before is gone, and it holds no whole event
\* (nothing, or the beginning of the serialization)
TruncateFile(fs, item) ==
    {f \in fs : f.path # FilePath(item.filename)}
    \cup {[path |-> FilePath(item.filename), event |-> <<>>]}

\* the number of items at the head of the list whose line
\* print(event.name, ':', event.begin.date()) can be written to stdout
RECURSIVE Encodable(_, _)
Encodable(encoding, items) ==
    IF items = <<>> \/ ~CanEncode(encoding, Head(items).event.name) THEN 0
    ELSE 1 + Encodable(encoding, Tail(items))

\* _save_event_to_file for the first n items of the list, in order
RECURSIVE SaveFirst(_, _, _)
SaveFirst(fs, items, n) ==
    IF n <= 0 THEN fs ELSE WriteFile(SaveFirst(fs, items, n - 1), items[n])

\* ------------------------------------------------------------ ingestion
\* an entry of the list that is a mapping; on any other value (a string, a
\* number, null, a list) anniversary['name'] raises TypeError
IsMapping(entry) == entry.scalar = <<>>

\* the required keys are read in this order; the first one absent raises KeyError
WellFormed(entry) ==
    entry.name # <<>> /\ entry.lunar_month # <<>> /\ entry.lunar_day # <<>>

\* dict.get(key, ''): the value, or the empty string when the key is absent
GetOrEmpty(field) == IF field = <<>> THEN <<>> ELSE field[1]

\* the dict appended to self.anniversaries for a well-formed entry
Stored(entry) ==
    [name |-> entry.name[1], chinese_name |-> GetOrEmpty(entry.chinese_name),
     lunar_month |-> entry.lunar_month[1], lunar_day |-> entry.lunar_day[1],
     notes |-> GetOrEmpty(entry.notes)]

\* the results of the loop so far: the dicts appended, the warnings printed,
\* and the exception that ended it ("None": it ran to the end of the list)
Ingested(stored, warned, exc) == [stored |-> stored, warnings |-> warned, exc |-> exc]

\* an entry put in front of what the rest of the list gives
IngestedBefore(entry, rest) ==
    IF WellFormed(entry)
    THEN Ingested(<<Stored(entry)>> \o rest.stored, rest.warnings, rest.exc)
    ELSE Ingested(rest.stored, rest.warnings + 1, rest.exc)

\* the for loop of load_anniversaries_config: append or warn, entry by entry;
\* only KeyError is caught, the TypeError of an entry that is not a mapping
\* ends the loop and leaves the method
RECURSIVE Ingest(_)
Ingest(entries) ==
    IF entries = <<>> THEN Ingested(<<>>, 0, "None")
    ELSE IF ~IsMapping(Head(entries)) THEN Ingested(<<>>, 0, "TypeError")
    ELSE IngestedBefore(Head(entries), Ingest(Tail(entries)))

\* a handler of load_anniversaries_config that prints one line: one warning,
\* or the UnicodeEncodeError of print, which leaves the method
Warn(encoding, text) ==
    IF CanEncode(encoding, text) THEN Ingested(<<>>, 1, "None")
    ELSE Ingested(<<>>, 0, "UnicodeEncodeError")

\* what load_anniversaries_config does with a config file:
\*   missing       open raises FileNotFoundError: caught, the warning names the
\*                 file
\*   invalid_yaml  safe_load raises YAMLError: caught, the message printed is
\*                 the parser's, which quotes the text and names the file
\*   no_key        empty document or a mapping without the key: one warning
\*   unreadable    open raises another OSError (a directory, no permission)
\*   not_utf8      reading raises UnicodeDecodeError
\*   too_deep      YAML nested deeper than the interpreter's recursion limit:
\*                 safe_load raises RecursionError, not a YAMLError
\*   bad_value     a scalar the loader cannot construct (the date 2024-02-30):
\*                 safe_load raises ValueError, not a YAMLError
\*   bad_bool      a scalar tagged !!bool that is no boolean (!!bool abc):
\*                 safe_load raises KeyError, outside the loop's try
\*   bad_timestamp a scalar tagged !!timestamp that is no timestamp:
\*                 safe_load raises AttributeError
\*   bad_int       an empty scalar tagged !!int or !!float: safe_load raises
\*                 IndexError
\*   scalar        a string that contains the word: config['anniversaries']
\*                 raises TypeError
\*   null_list     the key with no value: iterating None raises TypeError
\*   list          the loop over the entries (its warnings are ASCII)
LoadConfig(cfg, encoding) ==
    CASE cfg.kind = "missing" ->
            Warn(encoding, <<"Warning: Config file ">> \o cfg.path \o <<" not found">>)
      [] cfg.kind = "invalid_yaml" ->
            Warn(encoding, <<"Error parsing config file: ">> \o cfg.error \o cfg.path)
      [] cfg.kind = "no_key" ->
            Warn(encoding, <<"Warning: No anniversaries found in config file">>)
      [] cfg.kind = "unreadable" -> Ingested(<<>>, 0, "OSError")
      [] cfg.kind = "not_utf8" -> Ingested(<<>>, 0, "UnicodeDecodeError")
      [] cfg.kind = "too_deep" -> Ingested(<<>>, 0, "RecursionError")
      [] cfg.kind = "bad_value" -> Ingested(<<>>, 0, "ValueError")
      [] cfg.kind = "bad_bool" -> Ingested(<<>>, 0, "KeyError")
      [] cfg.kind = "bad_timestamp" -> Ingested(<<>>, 0, "AttributeError")
      [] cfg.kind = "bad_int" -> Ingested(<<>>, 0, "IndexError")
      [] cfg.kind \in {"scalar", "null_list"} -> Ingested(<<>>, 0, "TypeError")
      [] cfg.kind = "list" -> Ingest(cfg.entries)

\* ---------------------------------------------------------------- state
VARIABLES
    year,             \* self.year
    config,           \* the config file load_anniversaries_config reads
    anniversaries,    \* self.anniversaries
    warnings,         \* number of warning lines printed
    stdout,           \* sys.stdout.encoding
    loads,            \* number of calls of load_anniversaries_config so far
    pc,               \* where main() is: constructed, loaded, load_raised,
                      \* returned, raised
    files,            \* the files of self.output_dir: {[path, event]}
    generated_files,  \* the list generate_calendars has built
    raised,           \* the exception that left the method called, or "None"
    failed_path,      \* the path whose open/write raised OSError, or <<>>
    call,             \* the last direct call of a method: its name and arguments
    ret               \* what that call returned or raised

vars == <<year, stdout, config, anniversaries, warnings, loads, pc, files, generated_files,
          raised, failed_path, call, ret>>

pipeline == <<stdout, config, anniversaries, warnings, loads, pc, files, generated_files,
              raised, failed_path>>

\* ---------------------------------------------------------------- inputs
Opt(S) == {<<>>} \cup {<<x>> : x \in S}

SeqsUpTo(S, n) == UNION {[1..k -> S] : k \in 0..n}

\* "A B", "a_b" and "a',b"
Names == {<<"A", " ", "B">>, <<"a", "_", "b">>, <<"a", "'", ",", "b">>}

ChineseNames == {<<"U+7956U+6BCD">>}

NoteTexts == {<<"incense">>}

\* config entries of Spec: named (the first name with a chinese_name), lunar
\* month 3, day 15 or 30 or no day
\* a list entry that is not a mapping: the string "Grandmother"
ScalarEntry ==
    [name |-> <<>>, chinese_name |-> <<>>, lunar_month |-> <<>>, lunar_day |-> <<>>,
     notes |-> <<>>, scalar |-> <<"Grandmother">>]

PipelineEntries ==
    {[name |-> <<n>>,
      chinese_name |-> IF n = <<"A", " ", "B">> THEN <<<<"U+7956U+6BCD">>>> ELSE <<>>,
      lunar_month |-> <<3>>, lunar_day |-> d, notes |-> <<>>, scalar |-> <<>>] :
        n \in Names, d \in Opt({15, 30})}
    \cup {ScalarEntry}

\* config entries of SpecLoad: a mapping with each key present or absent, or a
\* string
LoadEntries ==
    {[name |-> n, chinese_name |-> c, lunar_month |-> m, lunar_day |-> d, notes |-> t,
      scalar |-> <<>>] :
        n \in Opt({<<"A", " ", "B">>, <<"a", "_", "b">>}), c \in Opt(ChineseNames),
        m \in Opt({3}), d \in Opt({15}), t \in Opt(NoteTexts)}
    \cup {ScalarEntry}

\* the name of the config file
ConfigPaths == {<<"anniversaries.yml">>, <<"U+7956U+6BCD", ".yml">>}

\* the text of a YAMLError before the file's name: the problem and the
\* character it was found at
YamlErrors ==
    {<<"mapping values are not allowed here">>,
     <<"found unknown escape character ", "U+7956">>}

\* a config file whose content does not matter beyond its kind
PlainConfig(kind) ==
    [kind |-> kind, path |-> <<"anniversaries.yml">>, error |-> <<>>, entries |-> <<>>]

\* a config file: absent, unreadable, not UTF-8, not YAML, too deeply nested,
\* with a value that cannot be constructed, YAML without the key, a string,
\* the key without a value, or the key with a list
ConfigKinds ==
    {"no_key", "unreadable", "not_utf8", "too_deep", "bad_value", "bad_bool",
     "bad_timestamp", "bad_int", "scalar", "null_list"}

ConfigsOver(entries, n) ==
    {PlainConfig(k) : k \in ConfigKinds}
    \cup {[PlainConfig("missing") EXCEPT !.path = p] : p \in ConfigPaths}
    \cup {[PlainConfig("invalid_yaml") EXCEPT !.path = p, !.error = e] :
              p \in ConfigPaths, e \in YamlErrors}
    \cup {[PlainConfig("list") EXCEPT !.entries = es] : es \in SeqsUpTo(entries, n)}

FirstDay == SolarToInt(MinYear, 12, 28)

DateArgs == {[ord |-> o, sec |-> t] : o \in FirstDay..(FirstDay + DaySpan), t \in {0, 43200}}

NoCall == [op |-> "none"]
NoRet == Return(<<>>)

\* the state after ChineseMemorialCalendar(year, output_dir), for a config file
Constructed(ys, encodings, configs) ==
    /\ year \in ys
    /\ stdout \in encodings
    /\ config \in configs
    /\ anniversaries = <<>>
    /\ warnings = 0
    /\ loads = 0
    /\ pc = "constructed"
    /\ files = {}
    /\ generated_files = <<>>
    /\ raised = "None"
    /\ failed_path = <<>>
    /\ call = NoCall
    /\ ret = NoRet

\* --------------------------------------------------------------- actions
\* load_anniversaries_config(config_file): appends to self.anniversaries, so a
\* further call on the same instance appends again; an exception other than
\* the three it catches leaves the method with what was appended so far
load_anniversaries_config ==
    /\ pc \in {"constructed", "loaded"}
    /\ loads < MaxLoads
    /\ loads' = loads + 1
    /\ \E r \in {LoadConfig(config, stdout)} :
          /\ anniversaries' = anniversaries \o r.stored
          /\ warnings' = warnings + r.warnings
          /\ raised' = r.exc
          /\ pc' = IF r.exc = "None" THEN "loaded" ELSE "load_raised"
    /\ UNCHANGED <<year, stdout, config, files, generated_files, failed_path, call, ret>>

\* the paths of the first n items
PathsOfFirst(items, n) == [i \in 1..n |-> FilePath(items[i].filename)]

\* the loop of generate_calendars on the list `items` when the first n saves
\* succeed and save n + 1 raises exc ("None": there is none, the loop ends):
\* UnicodeEncodeError from its print, or OSError from open (`opened` false: the
\* path is left as it was) or from the write after it
SaveLoop(items, n, exc, opened) ==
    /\ files' = IF exc = "OSError" /\ opened
                THEN TruncateFile(SaveFirst(files, items, n), items[n + 1])
                ELSE SaveFirst(files, items, n)
    /\ generated_files' = generated_files \o PathsOfFirst(items, n)
    /\ pc' = IF exc = "None" THEN "returned" ELSE "raised"
    /\ raised' = exc
    /\ failed_path' = IF exc = "OSError" THEN FilePath(items[n + 1].filename) ELSE <<>>

\* the exception that ends the loop after `limit` items were printed, when no
\* write fails: the print of the next item, if there is one
EndOfLoop(items, limit) == IF limit = Len(items) THEN "None" ELSE "UnicodeEncodeError"

\* generate_calendars(): builds the whole event list, then saves the events in
\* order; each save prints the event's name, then opens and writes the file;
\* a print that cannot be encoded raises UnicodeEncodeError, a write may raise
\* OSError, and either ends the loop
generate_calendars ==
    /\ pc = "loaded"
    /\ \E g \in {AllEvents(year, anniversaries)} :
          IF g.exc # "None"
          THEN /\ pc' = "raised"
               /\ raised' = g.exc
               /\ UNCHANGED <<files, generated_files, failed_path>>
          ELSE \E limit \in {Encodable(stdout, g.value)} :
               \E fail_at \in 0..limit, opened \in BOOLEAN :
                  IF fail_at = 0
                  THEN SaveLoop(g.value, limit, EndOfLoop(g.value, limit), opened)
                  ELSE SaveLoop(g.value, fail_at - 1, "OSError", opened)
    /\ UNCHANGED <<year, stdout, config, anniversaries, warnings, loads, call, ret>>

\* a direct call of _create_event on the constructed instance
CallCreateEvent ==
    \E date \in DateArgs :
        /\ call = NoCall
        /\ call' = [op |-> "_create_event", date |-> date]
        /\ ret' = _create_event(<<"name">>, date, FixedDesc("description"))
        /\ UNCHANGED <<year, pipeline>>

\* a direct call of _create_multiday_event
CallCreateMultidayEvent ==
    \E start_date \in DateArgs, end_date \in DateArgs :
        /\ call = NoCall
        /\ call' = [op |-> "_create_multiday_event", start_date |-> start_date,
                    end_date |-> end_date]
        /\ ret' = _create_multiday_event(<<"name">>, start_date, end_date,
                                         FixedDesc("description"))
        /\ UNCHANGED <<year, pipeline>>

\* a direct call of _lunar_to_solar
CallLunarToSolar ==
    \E lunar_month \in 1..12, lunar_day \in 1..30, y \in Opt(Years) :
        /\ call = NoCall
        /\ call' = [op |-> "_lunar_to_solar", lunar_month |-> lunar_month,
                    lunar_day |-> lunar_day, year |-> y]
        /\ ret' = _lunar_to_solar(year, lunar_month, lunar_day, y)
        /\ UNCHANGED <<year, pipeline>>

\* _solar_to_lunar applied to the date the last _lunar_to_solar returned
CallSolarToLunar ==
    /\ call.op = "_lunar_to_solar"
    /\ ret.exc = "None"
    /\ call' = [call EXCEPT !.op = "_solar_to_lunar"]
    /\ ret' = Return(_solar_to_lunar(ret.value))
    /\ UNCHANGED <<year, pipeline>>

\* ------------------------------------------------------- specifications
\* main(): construct, load the config, generate the calendars
Init == Constructed(Years, Encodings, ConfigsOver(PipelineEntries, MaxEntries))
Next == load_anniversaries_config \/ generate_calendars
Spec == Init /\ [][Next]_vars

\* load_anniversaries_config on every shape of config entry
InitLoad == Constructed({MinYear}, Encodings, ConfigsOver(LoadEntries, MaxLoadEntries))
NextLoad == load_anniversaries_config
SpecLoad == InitLoad /\ [][NextLoad]_vars

\* the event builders called on arbitrary datetimes (they print nothing)
InitBuilder == Constructed({MinYear}, {"utf-8"}, {PlainConfig("missing")})
NextBuilder == CallCreateEvent \/ CallCreateMultidayEvent
SpecBuilder == InitBuilder /\ [][NextBuilder]_vars

\* the resolver called on arbitrary lunar dates (it prints nothing)
InitResolver == Constructed(Years, {"utf-8"}, {PlainConfig("missing")})
NextResolver == CallLunarToSolar \/ CallSolarToLunar
SpecResolver == InitResolver /\ [][NextResolver]_vars

\* --------------------------------------------------------------- claims
\* the file at a path, as a set (empty when there is none)
FileAt(path) == {f \in files : f.path = path}

\* the event of the file at a path that holds a whole event, as a set
EventAt(path) == {f.event[1] : f \in {g \in FileAt(path) : g.event # <<>>}}

GhostPath == FilePath(<<"ghost_month.ics">>)
NyePath == FilePath(<<"chinese_new_year_eve.ics">>)

\* the length in days of an event: end (exclusive) minus begin
EventDays(e) == EventEnd(e)[1].ord - e.begin[1].ord

\* C1: the event _create_event(name, d, description) builds starts on the day
\* of d, at midnight, and its exclusive end is exactly one day after its start.
C1_SingleDayEvent ==
    call.op = "_create_event" =>
        /\ ret.exc = "None"
        /\ ret.value.begin = <<[ord |-> call.date.ord, sec |-> 0]>>
        /\ EventEnd(ret.value) = <<[ord |-> call.date.ord + 1, sec |-> 0]>>
        /\ EventDays(ret.value) = 1

\* C1 witness: _create_event was called with a datetime that is not midnight.
C1_Witness ==
    /\ call.op = "_create_event"
    /\ call.date.sec # 0
    /\ ret.exc = "None"

\* C2: for d1 <= d2 the event _create_multiday_event(name, d1, d2, description)
\* builds starts on d1 and has its exclusive end on d2 + 1 day: the all-day
\* conversion adds no further day.
C2_MultiDayEnd ==
    (call.op = "_create_multiday_event" /\ call.start_date.ord <= call.end_date.ord) =>
        /\ ret.exc = "None"
        /\ ret.value.begin = <<[ord |-> call.start_date.ord, sec |-> 0]>>
        /\ EventEnd(ret.value) = <<[ord |-> call.end_date.ord + 1, sec |-> 0]>>

\* C3: for an end date before the start date, the day before it included,
\* _create_multiday_event fails and returns no event.
C3_InvalidRange ==
    (call.op = "_create_multiday_event" /\ call.end_date.ord < call.start_date.ord) =>
        ret.exc # "None"

\* the anniversaries all resolve in the target year
AnniversariesResolve ==
    \A i \in 1..Len(anniversaries) :
        LunarExists(year, anniversaries[i].lunar_month, anniversaries[i].lunar_day)

\* C4: once generate_calendars has returned, or failed on a lunar date (no
\* anniversary unresolvable), the Ghost Month event exists, starts on lunar
\* 7/1 and its last day is the last existing day of the 7th lunar month: day 29
\* in a 29-day month, day 30 in a 30-day month.
C4_GhostMonthWindow ==
    ((pc = "returned" \/ raised = "DateNotExist") /\ AnniversariesResolve) =>
        /\ EventAt(GhostPath) # {}
        /\ \A e \in EventAt(GhostPath) :
              /\ e.begin = <<[ord |-> Lunar2Solar(year, 7, 1), sec |-> 0]>>
              /\ EventEnd(e) =
                     <<[ord |-> Lunar2Solar(year, 7, MonthLen(year, 7)) + 1, sec |-> 0]>>

\* C5 as amended: the Chinese New Year's Eve event that is written starts exactly
\* one day before _lunar_to_solar(1, 1, Y), lasts one day, and that date lies in
\* solar year Y itself.
C5_NewYearsEve ==
    \A e \in EventAt(NyePath) :
        /\ e.begin = <<PlusDays(_lunar_to_solar(year, 1, 1, <<year>>).value, -1)>>
        /\ EventDays(e) = 1
        /\ YearOf(e.begin[1]) = year

\* C5 witness: the Chinese New Year's Eve event has been written.
C5_Witness == pc = "returned" /\ EventAt(NyePath) # {}

\* C5 as stated: the Chinese New Year's Eve event is dated one day before
\* _lunar_to_solar(1, 1, Y) and that date lies in solar year Y - 1.
C5_EveInPreviousYear ==
    \A e \in EventAt(NyePath) :
        /\ e.begin = <<PlusDays(_lunar_to_solar(year, 1, 1, <<year>>).value, -1)>>
        /\ YearOf(e.begin[1]) = year - 1

\* the lunar year a call of _lunar_to_solar resolves in
CallYear == IF call.year = <<>> THEN year ELSE call.year[1]

\* C6: round trip: for a lunar month 1..12 and day 1..30 that exists in that
\* month of the lunar year, _lunar_to_solar returns a date, and _solar_to_lunar
\* of that date is the same month, day and year (not flagged as a leap month).
C6_RoundTrip ==
    /\ (call.op = "_lunar_to_solar"
        /\ call.lunar_day <= MonthLen(CallYear, call.lunar_month)) => ret.exc = "None"
    /\ call.op = "_solar_to_lunar" =>
          /\ ret.value.month = call.lunar_month
          /\ ret.value.day = call.lunar_day
          /\ ret.value.year = CallYear
          /\ ~ret.value.isleap

\* C6 witness: a round trip for a month after the leap month of a leap year,
\* the year passed explicitly and different from the instance's.
C6_Witness ==
    /\ call.op = "_solar_to_lunar"
    /\ call.year # <<>>
    /\ CallYear # year
    /\ LunarTable[CallYear].leap # 0
    /\ call.lunar_month > LunarTable[CallYear].leap

\* the positions of the well-formed entries of the config's list
WellFormedAt ==
    {i \in 1..Len(config.entries) :
        /\ config.entries[i].name # <<>>
        /\ config.entries[i].lunar_month # <<>>
        /\ config.entries[i].lunar_day # <<>>}

\* the position of the k-th well-formed entry
KthWellFormed(k) ==
    CHOOSE i \in WellFormedAt : Cardinality({j \in WellFormedAt : j <= i}) = k

\* C7: on a config with a list of entries load_anniversaries_config, called
\* once on a new instance, does not fail; every entry that lacks name,
\* lunar_month or lunar_day gives one warning and is skipped, and the stored
\* anniversaries are the well-formed entries in config order, chinese_name and
\* notes empty when absent.
C7_Ingestion ==
    (loads = 1 /\ config.kind = "list") =>
        /\ pc # "load_raised"
        /\ warnings = Len(config.entries) - Cardinality(WellFormedAt)
        /\ Len(anniversaries) = Cardinality(WellFormedAt)
        /\ \A k \in 1..Len(anniversaries) :
              \E e \in {config.entries[KthWellFormed(k)]} :
                 /\ anniversaries[k].name = e.name[1]
                 /\ anniversaries[k].lunar_month = e.lunar_month[1]
                 /\ anniversaries[k].lunar_day = e.lunar_day[1]
                 /\ anniversaries[k].chinese_name =
                        (IF e.chinese_name = <<>> THEN <<>> ELSE e.chinese_name[1])
                 /\ anniversaries[k].notes = (IF e.notes = <<>> THEN <<>> ELSE e.notes[1])

\* C8: after generate_calendars returns, the number of distinct files written
\* equals the number of events: 2 solar + 2 lunar + one per anniversary.
C8_OneFilePerEvent ==
    pc = "returned" =>
        Cardinality({f.path : f \in files}) = 4 + Len(anniversaries)

\* C9: when generate_calendars has attempted its writes and the write of one
\* event's file failed, the files of all the other events, before and after
\* it, are still written.
C9_IndependentWrites ==
    (pc = "raised" /\ raised = "OSError") =>
        \A i \in 1..Len(AllEvents(year, anniversaries).value) :
            \E p \in {FilePath(AllEvents(year, anniversaries).value[i].filename)} :
                p # failed_path => EventAt(p) # {}

\* C10: when a lunar date does not resolve in the target year (the Ghost Month
\* day 30 or an anniversary's day), generate_calendars raises DateNotExist and
\* no file at all has been written.
C10_AllOrNothing ==
    /\ (pc \in {"returned", "raised"} /\ ~(LunarExists(year, 7, 30) /\ AnniversariesResolve))
           => raised = "DateNotExist"
    /\ raised = "DateNotExist" => (pc = "raised" /\ files = {} /\ generated_files = <<>>)

\* C10 witness: the fixed occasions resolve, an anniversary does not, and
\* generate_calendars has raised.
C10_Witness ==
    /\ pc = "raised"
    /\ raised = "DateNotExist"
    /\ LunarExists(year, 7, 30)
    /\ ~AnniversariesResolve

====
